---------------------------- MODULE Spec2Model ----------------------------
(***************************************************************************)
(* KinectHAMonitor: the three scripts of src/Monitor as state machines.   *)
(*                                                                         *)
(*   kinect_motion_runloop.py  callback variant (process_depth,            *)
(*                             body_callback), jog tilt, LED               *)
(*   kinect_motion_mqtt.py     polling variant (main)                      *)
(*   kinect_motion_track.py    direct-set tilt helper (track_from_frame)   *)
(*                                                                         *)
(* A behaviour runs one script; `script` says which.  Time is counted in   *)
(* ticks, Sec ticks to the second; every reading of time.time() is the     *)
(* value of `now` after the step has advanced it.  The image primitives    *)
(* (absdiff, threshold, moments) are inputs: a frame arrives as the sum of *)
(* its change mask (px) and the mask's centroid row (cy).                  *)
(***************************************************************************)
EXTENDS Integers, Sequences, FiniteSets

VARIABLES
    script,          \* which script this behaviour runs
    now,             \* the wall clock, in ticks
    \* ---- kinect_motion_runloop.py globals (motion_state, last_motion,
    \*      last_tilt_time are also the names the other scripts use)
    prev,            \* process_depth.prev is not None
    pixel_hist,      \* deque(maxlen=30)
    last_check,
    motion_state,
    last_motion,
    below_cnt,
    last_tilt_time,
    current_tilt,
    desired_led,
    last_led,
    \* ---- kinect_motion_mqtt.py locals of main
    last_frame,      \* last_frame is not None
    redundant_sent,
    interval,
    \* ---- kinect_motion_track.py globals
    last_tilt,
    target_tilt,
    motor_dev,       \* motor_dev is not None
    \* ---- the process
    client,          \* the transport is connected
    retry,           \* connection attempts made so far
    exit_code,       \* the exit status, None while the process runs
    \* ---- the frame the last call of process_depth / track_from_frame got
    frame_px,        \* the sum of its change mask
    frame_cy,        \* the centroid row of its mask, None when it has no mass
    \* ---- what the last step sent out
    published,       \* payloads given to client.publish, in order
    tilt_cmds,       \* angles given to freenect.set_tilt_degs, in order
    led_cmds,        \* values given to freenect.set_led, in order
    tilt_at,         \* the times of the calls in tilt_cmds
    \* ---- the last call of a callback / iteration of main
    step,            \* the callback or loop that made the last step
    ret,             \* the path the last process_depth / main iteration took
    avg_sum,         \* sum(pixel_hist) of its evaluation (0 when it made none)
    avg_len,         \* len(pixel_hist) of its evaluation (0 when it made none)
    \* ---- history
    act_at,          \* runloop: time of the latest change from Idle to Active,
                     \* kept while Active for ScenarioSpan, 0 otherwise
    true_run,        \* runloop: "true" publishes since act_at, its own included
    above_at,        \* time of the latest evaluation above the threshold
    pub_true_at,     \* runloop: time of the latest "true" publish
    below_run,       \* runloop: evaluations at or below the threshold since
                     \* above_at, counted up to MOTION_GRACE_EVALS + 1
    false_run,       \* runloop: "false" publishes since above_at
    observed,        \* change metrics of the frames since the previous evaluation
                     \* (just after an evaluation: the ones it had before it)
    cmd_at,          \* time of the latest call of freenect.set_tilt_degs, 0: none
    last_pub,        \* the latest payload published, "none" before the first
    led_run          \* runloop: calls of freenect.set_led since desired_led
                     \* last changed

vars == <<script, now, prev, pixel_hist, last_check, motion_state, last_motion,
          below_cnt, last_tilt_time, current_tilt, desired_led, last_led,
          last_frame, redundant_sent, interval, last_tilt, target_tilt,
          motor_dev, published, tilt_cmds, led_cmds, step, ret, avg_sum, avg_len,
          act_at, true_run, above_at, pub_true_at, below_run, false_run,
          observed, client, retry, exit_code, frame_px, frame_cy, tilt_at,
          cmd_at, last_pub, led_run>>

runloopVars == <<prev, pixel_hist, last_check, below_cnt, current_tilt,
                 desired_led, last_led>>
mqttVars    == <<last_frame, redundant_sent, interval>>
trackVars   == <<last_tilt, target_tilt, motor_dev>>
lifeVars    == <<client, retry, exit_code>>
frameVars   == <<frame_px, frame_cy>>
\* the history kept of the runloop variant only
runloopHist == <<act_at, true_run, pub_true_at, below_run, false_run, observed>>

-----------------------------------------------------------------------------
(* Bounds of the model *)

Sec        == 10     \* ticks per second
StartTime  == 1000   \* seconds on the clock when the script starts
MaxElapsed == 260    \* seconds of run time explored

\* Python's None, for a row, an angle or a LED value: outside the range of each
None == -999

Min(a, b) == IF a < b THEN a ELSE b
Max(a, b) == IF a > b THEN a ELSE b

RECURSIVE Sum(_)
Sum(s) == IF s = <<>> THEN 0 ELSE Head(s) + Sum(Tail(s))

\* the control loop runs: the transport is connected, the process has not exited
Running == client /\ exit_code = None

\* the latest payload published, after a step that published pubs
LatestPayload(before, pubs) ==
    IF pubs = <<>> THEN before ELSE pubs[Len(pubs)]

-----------------------------------------------------------------------------
(* kinect_motion_runloop.py *)

Threshold          == 3000000
HIST_MAXLEN        == 30
CHECK_INTERVAL     == 5 * Sec
DEBOUNCE_SEC       == 5 * Sec
IDLE_TIMEOUT       == 4 * 60 * Sec
MOTION_GRACE_EVALS == 30
TILT_COOLDOWN      == 1 * Sec
STEP_DEG           == 5
INITIAL_TILT       == -15
LED_GREEN          == 1
LED_RED            == 2
FRAME_HEIGHT       == 480

\* a deque that grows without bound
DequeAppend_Unbounded(h, x) == Append(h, x)

\* deque(maxlen=30).append: the oldest value is dropped when full
DequeAppend(h, x) ==
    IF Len(h) < HIST_MAXLEN THEN Append(h, x) ELSE Append(Tail(h), x)

\* the comparison with >= for >
AboveThreshold_AtOrAbove(s, n) == s >= Threshold * n

\* avg = sum(pixel_hist)/len(pixel_hist); avg > ARGS.threshold.
\* The sums stay far below 2^53, so the float quotient compares as the
\* exact one does.
AboveThreshold(s, n) == s > Threshold * n

\* an evaluation on every frame
GateClosed_Never(t) == FALSE

\* line 122: the evaluation is not due yet
GateClosed(t) == t - last_check < CHECK_INTERVAL

\* a window that slides on instead of being cleared
ClearedWindow_Kept(hist) == hist

\* line 129: pixel_hist.clear()
ClearedWindow(hist) == <<>>

\* a counter that an evaluation above the threshold leaves alone
BelowAfterAbove_Kept(cnt) == cnt

\* line 133: below_cnt = 0
BelowAfterAbove(cnt) == 0

\* the debounce with >= for >
Debounced_AtOrAfter(t) == t - last_motion >= DEBOUNCE_SEC

\* line 141: the debounce of the repeated "true"
Debounced(t) == t - last_motion > DEBOUNCE_SEC

\* the way out by the counter alone
GraceOrTimeout_GraceOnly(cnt, t) == cnt >= MOTION_GRACE_EVALS

\* line 146: the two ways out of Active, on the counter already incremented
GraceOrTimeout(cnt, t) ==
    cnt >= MOTION_GRACE_EVALS \/ t - last_motion >= IDLE_TIMEOUT

\* jogs whatever the change metric
Jog_AnyMetric(tilt, px, cy) ==
    IF cy = None THEN tilt
    ELSE IF 10 * cy < 3 * FRAME_HEIGHT THEN Min(tilt + STEP_DEG, 30)
    ELSE IF 10 * cy > 7 * FRAME_HEIGHT THEN Max(tilt - STEP_DEG, -30)
    ELSE tilt

\* jogs that run past the mechanical limits
Jog_Unclamped(tilt, px, cy) ==
    IF cy = None THEN tilt
    ELSE IF 10 * cy < 3 * FRAME_HEIGHT /\ px > Threshold THEN tilt + STEP_DEG
    ELSE IF 10 * cy > 7 * FRAME_HEIGHT /\ px > Threshold THEN tilt - STEP_DEG
    ELSE tilt

\* lines 109-116: one jog of STEP_DEG, saturating, by the zone of the centroid
Jog(tilt, px, cy) ==
    IF cy = None THEN tilt
    ELSE IF 10 * cy < 3 * FRAME_HEIGHT /\ px > Threshold
         THEN Min(tilt + STEP_DEG, 30)
    ELSE IF 10 * cy > 7 * FRAME_HEIGHT /\ px > Threshold
         THEN Max(tilt - STEP_DEG, -30)
    ELSE tilt

\* an indicator that the start of motion leaves as it was
StartedLed_Kept(led) == led

\* line 140: desired_led = LED_RED
StartedLed(led) == LED_RED

\* a state that the end of motion leaves as it was
EndedState_Kept(state) == state

\* line 150: motion_state = False
EndedState(state) == FALSE

\* an indicator applied on every call
LedDue_Always(desired, last) == TRUE

\* line 163: desired_led != last_led
LedDue(desired, last) == desired # last

\* the span after a change to Active over which act_at and true_run are kept
ScenarioSpan == 10 * Sec

KeepRecent(t) ==
    LET recent == act_at # 0 /\ t - act_at <= ScenarioSpan
    IN  /\ act_at' = IF recent THEN act_at ELSE 0
        /\ true_run' = IF recent THEN true_run ELSE 0

\* lines 132-142: the evaluation is above the threshold
EvalAbove(t) ==
    /\ below_cnt' = BelowAfterAbove(below_cnt)
    /\ above_at' = t
    /\ below_run' = 0
    /\ false_run' = 0
    /\ IF ~motion_state
       THEN /\ published' = <<"true">>
            /\ motion_state' = TRUE
            /\ last_motion' = t
            /\ desired_led' = StartedLed(desired_led)
            /\ pub_true_at' = t
            /\ act_at' = t
            /\ true_run' = 1
       ELSE IF Debounced(t)
       THEN /\ published' = <<"true">>
            /\ last_motion' = t
            /\ pub_true_at' = t
            /\ act_at' = IF t - act_at <= ScenarioSpan THEN act_at ELSE 0
            /\ true_run' = IF t - act_at <= ScenarioSpan THEN true_run + 1 ELSE 0
            /\ UNCHANGED <<motion_state, desired_led>>
       ELSE /\ published' = <<>>
            /\ KeepRecent(t)
            /\ UNCHANGED <<motion_state, last_motion, desired_led, pub_true_at>>

\* lines 143-153: the evaluation is at or below the threshold
EvalBelow(t) ==
    /\ below_run' = Min(below_run + 1, MOTION_GRACE_EVALS + 1)
    /\ UNCHANGED <<above_at, pub_true_at, last_motion>>
    /\ IF motion_state
       THEN /\ below_cnt' = below_cnt + 1
            /\ IF GraceOrTimeout(below_cnt + 1, t)
               THEN /\ published' = <<"false">>
                    /\ motion_state' = EndedState(motion_state)
                    /\ desired_led' = LED_GREEN
                    /\ false_run' = false_run + 1
                    /\ act_at' = 0
                    /\ true_run' = 0
               ELSE /\ published' = <<>>
                    /\ KeepRecent(t)
                    /\ UNCHANGED <<motion_state, desired_led, false_run>>
       ELSE /\ below_cnt' = 0
            /\ published' = <<>>
            /\ KeepRecent(t)
            /\ UNCHANGED <<motion_state, desired_led, false_run>>

\* lines 120-153: the gate on CHECK_INTERVAL, the average, the clear
Evaluate(t, hist) ==
    IF GateClosed(t)
    THEN /\ ret' = "early"
         /\ pixel_hist' = hist
         /\ published' = <<>>
         /\ avg_sum' = 0
         /\ avg_len' = 0
         /\ KeepRecent(t)
         /\ UNCHANGED <<last_check, motion_state, last_motion, below_cnt,
                        desired_led, above_at, pub_true_at, below_run,
                        false_run>>
    ELSE /\ last_check' = t
         /\ IF hist = <<>>
            THEN /\ ret' = "empty"
                 /\ pixel_hist' = hist
                 /\ published' = <<>>
                 /\ avg_sum' = 0
                 /\ avg_len' = 0
                 /\ KeepRecent(t)
                 /\ UNCHANGED <<motion_state, last_motion, below_cnt,
                                desired_led, above_at, pub_true_at,
                                below_run, false_run>>
            ELSE /\ ret' = "eval"
                 /\ avg_sum' = Sum(hist)
                 /\ avg_len' = Len(hist)
                 /\ pixel_hist' = ClearedWindow(hist)
                 /\ IF AboveThreshold(Sum(hist), Len(hist))
                    THEN EvalAbove(t)
                    ELSE EvalBelow(t)

\* process_depth(dev, depth, ts), called dt ticks after the previous step with
\* a frame whose change mask sums to px and has its centroid in row cy
ProcessDepth(dt, px, cy) ==
    /\ script = "runloop"
    /\ Running
    /\ now' = now + dt
    /\ frame_px' = px
    /\ frame_cy' = cy
    /\ prev' = TRUE
    /\ current_tilt' = IF prev /\ motion_state THEN Jog(current_tilt, px, cy)
                       ELSE current_tilt
    /\ LET hist == IF prev THEN DequeAppend(pixel_hist, px) ELSE pixel_hist
       IN  /\ Evaluate(now + dt, hist)
           /\ observed' = IF ~prev THEN observed
                          ELSE IF ret = "eval" THEN <<px>>
                          ELSE Append(observed, px)
    /\ last_pub' = LatestPayload(last_pub, published')
    /\ led_run' = IF desired_led' # desired_led THEN 0 ELSE led_run
    /\ tilt_cmds' = <<>>
    /\ tilt_at' = <<>>
    /\ led_cmds' = <<>>
    /\ step' = "process_depth"
    /\ UNCHANGED <<script, last_tilt_time, last_led, cmd_at, mqttVars,
                   trackVars, lifeVars>>

\* body_callback(dev, ctx), called dt ticks after the previous step
BodyCallback(dt) ==
    /\ script = "runloop"
    /\ Running
    /\ now' = now + dt
    /\ IF LedDue(desired_led, last_led)
       THEN /\ led_cmds' = <<desired_led>>
            /\ last_led' = desired_led
            /\ led_run' = led_run + 1
       ELSE /\ led_cmds' = <<>>
            /\ UNCHANGED <<last_led, led_run>>
    /\ IF (now + dt) - last_tilt_time >= TILT_COOLDOWN
       THEN /\ tilt_cmds' = <<current_tilt>>
            /\ tilt_at' = <<now + dt>>
            /\ cmd_at' = now + dt
            /\ last_tilt_time' = now + dt
       ELSE /\ tilt_cmds' = <<>>
            /\ tilt_at' = <<>>
            /\ UNCHANGED <<last_tilt_time, cmd_at>>
    /\ published' = <<>>
    /\ step' = "body_callback"
    /\ UNCHANGED <<script, ret, prev, pixel_hist, last_check, motion_state,
                   last_motion, below_cnt, current_tilt, desired_led,
                   avg_sum, avg_len, above_at, runloopHist, last_pub,
                   mqttVars, trackVars, frameVars, lifeVars>>

\* the module-level assignments of the script, lines 62-76 and 155
InitRunloop ==
    /\ script = "runloop"
    /\ prev = FALSE
    /\ pixel_hist = <<>>
    /\ last_check = 0
    /\ motion_state = FALSE
    /\ last_motion = 0
    /\ below_cnt = 0
    /\ last_tilt_time = 0
    /\ current_tilt = INITIAL_TILT
    /\ desired_led = LED_GREEN
    /\ last_led = None
    /\ last_frame = FALSE
    /\ redundant_sent = FALSE
    /\ interval = 0
    /\ last_tilt = None
    /\ target_tilt = None
    /\ motor_dev = FALSE

-----------------------------------------------------------------------------
(* kinect_motion_mqtt.py *)

MqttThreshold    == 1000000
IDLE_TIME        == 4 * 60 * Sec
REDUNDANCY_DELAY == 30 * Sec
MQTT_DEBOUNCE_SEC == 5 * Sec
INTERVAL_IDLE    == 5 * Sec
INTERVAL_ACTIVE  == 1 * Sec

\* motion_detected(prev, cur, threshold), on the sum of the change mask
motion_detected(px) == px > MqttThreshold

\* lines 150-163: the frame shows motion
MainMotion(t) ==
    /\ ret' = "motion"
    /\ above_at' = t
    /\ interval' = INTERVAL_ACTIVE
    /\ now' = t
    /\ IF ~motion_state
       THEN /\ motion_state' = TRUE
            /\ last_motion' = t
            /\ redundant_sent' = FALSE
            /\ published' = <<"true">>
       ELSE IF t - last_motion > MQTT_DEBOUNCE_SEC /\ ~redundant_sent
       THEN /\ published' = <<"true">>
            /\ redundant_sent' = TRUE
            /\ UNCHANGED <<motion_state, last_motion>>
       ELSE /\ published' = <<>>
            /\ UNCHANGED <<motion_state, last_motion, redundant_sent>>

\* lines 164-172: the frame shows none; the second "false" follows a sleep of
\* REDUNDANCY_DELAY inside the iteration
MainStill(t) ==
    /\ ret' = "still"
    /\ UNCHANGED <<above_at, last_motion, redundant_sent>>
    /\ IF motion_state /\ t - last_motion > IDLE_TIME
       THEN /\ motion_state' = FALSE
            /\ published' = <<"false", "false">>
            /\ interval' = INTERVAL_IDLE
            /\ now' = t + REDUNDANCY_DELAY
       ELSE /\ published' = <<>>
            /\ now' = t
            /\ UNCHANGED <<motion_state, interval>>

\* one iteration of the while loop of main(), from the sleep that ends the
\* iteration before it (line 177; none before the first) to its last publish:
\* the frame arrives lat ticks after that sleep, and its difference to the
\* previous frame has a change mask that sums to px.  `now` is left at the
\* reading of line 147, REDUNDANCY_DELAY later when line 170 slept.
MainLoop(lat, px) ==
    /\ script = "mqtt"
    /\ Running
    /\ last_frame' = TRUE
    /\ IF last_frame
       THEN IF motion_detected(px) THEN MainMotion(now + interval + lat)
            ELSE MainStill(now + interval + lat)
       ELSE /\ ret' = "first"
            /\ published' = <<>>
            /\ now' = now + lat
            /\ UNCHANGED <<motion_state, last_motion, redundant_sent, interval,
                           above_at>>
    /\ last_pub' = LatestPayload(last_pub, published')
    /\ step' = "main"
    /\ tilt_cmds' = <<>>
    /\ tilt_at' = <<>>
    /\ led_cmds' = <<>>
    /\ UNCHANGED <<script, avg_sum, avg_len, last_tilt_time, runloopHist,
                   runloopVars, trackVars, cmd_at, led_run, frameVars,
                   lifeVars>>

\* lines 139-143
InitMqtt ==
    /\ script = "mqtt"
    /\ last_frame = FALSE
    /\ last_motion = 0
    /\ motion_state = FALSE
    /\ redundant_sent = FALSE
    /\ interval = INTERVAL_IDLE
    /\ prev = FALSE
    /\ pixel_hist = <<>>
    /\ last_check = 0
    /\ below_cnt = 0
    /\ last_tilt_time = 0
    /\ current_tilt = None
    /\ desired_led = None
    /\ last_led = None
    /\ last_tilt = None
    /\ target_tilt = None
    /\ motor_dev = FALSE

-----------------------------------------------------------------------------
(* kinect_motion_track.py *)

TRACK_TILT_COOLDOWN == 2 * Sec
POKE_SLEEP          == (3 * Sec) \div 10

\* the line cut to the integer below it
InterpTilt_Floor(y) ==
    IF y <= 0 THEN 30
    ELSE IF y >= 480 THEN -30
    ELSE (240 - y) \div 8

\* int(np.interp(y, [0, 480], [30, -30])): the line from (0, 30) to
\* (480, -30), its end values outside [0, 480], cut to an integer towards 0
InterpTilt(y) ==
    IF y <= 0 THEN 30
    ELSE IF y >= 480 THEN -30
    ELSE IF y <= 240 THEN (240 - y) \div 8
    ELSE -((y - 240) \div 8)

\* a centroid taken for granted
HasCentroid_Always(y) == TRUE

\* lines 17-18 and 43: compute_centroid returned a centroid
HasCentroid(y) == y # None

\* line 46
ClampTilt(tilt) == Max(Min(tilt, 30), -30)

\* line 56
Poke(target) == IF target < 30 THEN target + 1 ELSE target - 1

\* track_from_frame(frame, _, debug), called dt ticks after the previous call
\* returned, on a frame whose mask has its centroid in row y (None: no mass)
TrackFromFrame(dt, y) ==
    /\ script = "track"
    /\ exit_code = None
    /\ step' = "track_from_frame"
    /\ frame_cy' = y
    /\ IF ~motor_dev
       THEN /\ ret' = "nodev"
            /\ now' = now + dt
            /\ tilt_cmds' = <<>>
            /\ tilt_at' = <<>>
            /\ UNCHANGED <<target_tilt, last_tilt, last_tilt_time, cmd_at>>
       ELSE IF ~HasCentroid(y)
       THEN /\ ret' = "nocentroid"
            /\ now' = now + dt
            /\ tilt_cmds' = <<>>
            /\ tilt_at' = <<>>
            /\ UNCHANGED <<target_tilt, last_tilt, last_tilt_time, cmd_at>>
       ELSE LET tilt == ClampTilt(InterpTilt(y))
            IN  /\ target_tilt' = tilt
                /\ IF (now + dt) - last_tilt_time > TRACK_TILT_COOLDOWN
                   THEN /\ ret' = "moved"
                        /\ tilt_cmds' = <<Poke(tilt), tilt>>
                        /\ tilt_at' = <<now + dt, now + dt + POKE_SLEEP>>
                        /\ cmd_at' = now + dt + POKE_SLEEP
                        /\ last_tilt' = tilt
                        /\ last_tilt_time' = now + dt
                        /\ now' = now + dt + POKE_SLEEP
                   ELSE /\ ret' = "cooldown"
                        /\ tilt_cmds' = <<>>
                        /\ tilt_at' = <<>>
                        /\ now' = now + dt
                        /\ UNCHANGED <<last_tilt, last_tilt_time, cmd_at>>
    /\ published' = <<>>
    /\ led_cmds' = <<>>
    /\ UNCHANGED <<script, motor_dev, motion_state, last_motion, avg_sum,
                   avg_len, above_at, runloopHist, runloopVars, mqttVars,
                   frame_px, last_pub, led_run, lifeVars>>

\* lines 6-12; motor_dev is set, or not, by the script that imports the module
InitTrack ==
    /\ script = "track"
    /\ last_tilt = None
    /\ last_tilt_time = 0
    /\ target_tilt = None
    /\ motor_dev \in BOOLEAN
    /\ motion_state = FALSE
    /\ last_motion = 0
    /\ prev = FALSE
    /\ pixel_hist = <<>>
    /\ last_check = 0
    /\ below_cnt = 0
    /\ current_tilt = None
    /\ desired_led = None
    /\ last_led = None
    /\ last_frame = FALSE
    /\ redundant_sent = FALSE
    /\ interval = 0

-----------------------------------------------------------------------------
(* The process: the connection to the broker and the interrupt *)

CONNECT_TRIES == 5
CONNECT_WAIT  == 5 * Sec

\* what a step that is no callback leaves alone
processIdle == <<script, ret, motion_state, last_motion, last_tilt_time,
                 avg_sum, avg_len, above_at, runloopHist, runloopVars,
                 mqttVars, trackVars, frameVars, cmd_at, last_pub, led_run>>

\* kinect_motion_mqtt.py, connect_mqtt(broker), lines 75-92, with a broker
\* that refuses the first `refused` attempts: up to CONNECT_TRIES attempts,
\* a sleep of CONNECT_WAIT after each one refused, sys.exit(1) after the last
ConnectMqtt(refused) ==
    /\ script = "mqtt"
    /\ ~client
    /\ exit_code = None
    /\ step' = "connect_mqtt"
    /\ published' = <<>>
    /\ tilt_cmds' = <<>>
    /\ tilt_at' = <<>>
    /\ led_cmds' = <<>>
    /\ IF refused < CONNECT_TRIES
       THEN /\ retry' = refused + 1
            /\ now' = now + refused * CONNECT_WAIT
            /\ client' = TRUE
            /\ UNCHANGED exit_code
       ELSE /\ retry' = CONNECT_TRIES
            /\ now' = now + CONNECT_TRIES * CONNECT_WAIT
            /\ exit_code' = 1
            /\ UNCHANGED client
    /\ UNCHANGED processIdle

\* kinect_motion_runloop.py, connect_mqtt(), lines 49-56, called at line 176
\* outside the try: one attempt, and the OSError of a refused one ends the
\* process with the status of an uncaught exception
RunloopConnectMqtt(refused) ==
    /\ script = "runloop"
    /\ ~client
    /\ exit_code = None
    /\ step' = "connect_mqtt"
    /\ published' = <<>>
    /\ tilt_cmds' = <<>>
    /\ tilt_at' = <<>>
    /\ led_cmds' = <<>>
    /\ retry' = 1
    /\ IF refused = 0
       THEN /\ client' = TRUE
            /\ UNCHANGED exit_code
       ELSE /\ exit_code' = 1
            /\ UNCHANGED client
    /\ UNCHANGED <<now, processIdle>>

\* KeyboardInterrupt while the control loop runs: runloop lines 179-183,
\* mqtt lines 182-184.  A message is printed and sys.exit(0) is called.
Interrupt ==
    /\ script \in {"runloop", "mqtt"}
    /\ Running
    /\ step' = "interrupt"
    /\ published' = <<>>
    /\ tilt_cmds' = <<>>
    /\ tilt_at' = <<>>
    /\ led_cmds' = <<>>
    /\ exit_code' = 0
    /\ UNCHANGED <<now, client, retry, processIdle>>

\* line 48 of the runloop script, main() of the mqtt script not yet called
Unconnected == client = FALSE /\ retry = 0 /\ exit_code = None
\* the broker accepted the first attempt
Connected == client = TRUE /\ retry = 1 /\ exit_code = None

-----------------------------------------------------------------------------
(* Every script *)

InitCommon ==
    /\ now = StartTime * Sec
    /\ published = <<>>
    /\ tilt_cmds = <<>>
    /\ led_cmds = <<>>
    /\ step = "init"
    /\ ret = "init"
    /\ avg_sum = 0
    /\ avg_len = 0
    /\ act_at = 0
    /\ true_run = 0
    /\ above_at = 0
    /\ pub_true_at = 0
    /\ below_run = 0
    /\ false_run = 0
    /\ observed = <<>>
    /\ frame_px = 0
    /\ frame_cy = None
    /\ tilt_at = <<>>
    /\ cmd_at = 0
    /\ last_pub = "none"
    /\ led_run = 0

-----------------------------------------------------------------------------
(* Inputs *)

Deadline == (StartTime + MaxElapsed) * Sec

\* a frame: the mask is empty (no centroid) or has a sum and a centroid row
Frame(px, cy) == (px = 0) <=> (cy = None)

PxValues == {0, 2 * Threshold}
Rows     == {None, 0, 143, 144, 240, 336, 337, 479}

\* the state machine: frames 2.5 s apart (two to an evaluation), 5 s apart
\* (one to an evaluation, on the boundary of the gate) or after a stall
MotionDeltas == {(5 * Sec) \div 2, 5 * Sec, IDLE_TIMEOUT}

MotionFrame ==
    \E dt \in MotionDeltas, px \in PxValues, cy \in {None, 240} :
        /\ now + dt <= Deadline
        /\ Frame(px, cy)
        /\ ProcessDepth(dt, px, cy)

\* the polling loop: a frame takes 4 s or 9 s to arrive
MainLatency == {4 * Sec, 9 * Sec}
MqttPx      == {0, 2 * MqttThreshold}

MotionLoop ==
    \E lat \in MainLatency, px \in MqttPx :
        /\ now + interval + lat <= Deadline
        /\ MainLoop(lat, px)

InitMotion == InitCommon /\ Connected /\ (InitRunloop \/ InitMqtt)
NextMotion == MotionFrame \/ MotionLoop
SpecMotion == InitMotion /\ [][NextMotion]_vars

\* the actuator: frames and body callbacks half a second or more apart
TiltElapsed  == 11
TiltDeadline == (StartTime + TiltElapsed) * Sec
TiltPx       == {2 * Threshold}
TiltDeltas   == {Sec \div 2, 5 * Sec}
BodyDeltas   == {Sec \div 2, 1 * Sec}
TrackDeltas  == {1 * Sec, 3 * Sec}
TrackRows    == {None, 0, 1, 7, 8, 239, 240, 241, 472, 473, 479, 480, 481, 600}

TiltFrame ==
    \E dt \in TiltDeltas, px \in TiltPx, cy \in Rows :
        /\ now + dt <= TiltDeadline
        /\ Frame(px, cy)
        /\ ProcessDepth(dt, px, cy)

TiltBody ==
    \E dt \in BodyDeltas :
        /\ now + dt <= TiltDeadline
        /\ BodyCallback(dt)

TiltTrack ==
    \E dt \in TrackDeltas, y \in TrackRows :
        /\ now + dt <= TiltDeadline
        /\ TrackFromFrame(dt, y)

InitTilt ==
    /\ InitCommon
    /\ \/ InitRunloop /\ Connected
       \/ InitTrack /\ Unconnected
NextTilt == TiltFrame \/ TiltBody \/ TiltTrack
SpecTilt == InitTilt /\ [][NextTilt]_vars

\* the jog: frames with and without mass, at, above and below the threshold,
\* 2.5 s or 5 s apart, and the direct-set helper on the same rows
JogElapsed  == 30
JogDeadline == (StartTime + JogElapsed) * Sec
JogPx       == {0, Threshold, 2 * Threshold}
JogDeltas   == {(5 * Sec) \div 2, 5 * Sec}
JogRows     == {None, 143, 144, 240, 336, 337}

JogFrame ==
    \E dt \in JogDeltas, px \in JogPx, cy \in JogRows :
        /\ now + dt <= JogDeadline
        /\ Frame(px, cy)
        /\ ProcessDepth(dt, px, cy)

JogBody ==
    \E dt \in {5 * Sec} :
        /\ now + dt <= JogDeadline
        /\ BodyCallback(dt)

JogTrack ==
    \E dt \in TrackDeltas, y \in JogRows :
        /\ now + dt <= JogDeadline
        /\ TrackFromFrame(dt, y)

InitJog ==
    /\ InitCommon
    /\ \/ InitRunloop /\ Connected
       \/ InitTrack /\ Unconnected
NextJog == JogFrame \/ JogBody \/ JogTrack
SpecJog == InitJog /\ [][NextJog]_vars

\* the indicator: frames arrive on a raster of 5 s, or once after a stall of
\* IDLE_TIMEOUT, and body callbacks in between, 0.4 s or 1 s after the step
\* before; the first LedElapsed seconds of the run are explored, and the
\* LedElapsed seconds that follow the stall
LedElapsed    == 11
LedRaster     == 5 * Sec
LedBodyDeltas == {(2 * Sec) \div 5, 1 * Sec}

\* the first time on the raster after t
NextOnRaster(t) == t + LedRaster - (t % LedRaster)

\* t lies in the time explored
LedTime(t) ==
    \/ t <= (StartTime + LedElapsed) * Sec
    \/ /\ t >= StartTime * Sec + IDLE_TIMEOUT
       /\ t <= (StartTime + LedElapsed) * Sec + IDLE_TIMEOUT

LedFrame ==
    \E dt \in {NextOnRaster(now) - now, IDLE_TIMEOUT},
       px \in PxValues, cy \in {None, 240} :
        /\ LedTime(now + dt)
        /\ Frame(px, cy)
        /\ ProcessDepth(dt, px, cy)

LedBody ==
    \E dt \in LedBodyDeltas :
        /\ LedTime(now + dt)
        /\ BodyCallback(dt)

InitLed == InitCommon /\ Connected /\ InitRunloop
NextLed == LedFrame \/ LedBody
SpecLed == InitLed /\ [][NextLed]_vars

\* the sliding window: frames a tick or two apart, each with its own metric
WindowElapsed  == 12
WindowDeadline == (StartTime + WindowElapsed) * Sec
WindowDeltas   == {1, 5 * Sec}
PxUnit         == 255

WindowFrame ==
    \E dt \in WindowDeltas :
        /\ now + dt <= WindowDeadline
        /\ ProcessDepth(dt, PxUnit * (Len(observed) + 1), 240)

InitWindow == InitCommon /\ Connected /\ InitRunloop
NextWindow == WindowFrame
SpecWindow == InitWindow /\ [][NextWindow]_vars

\* the process: the connection, the first evaluations, the interrupt
LifeElapsed  == 45
LifeDeadline == (StartTime + LifeElapsed) * Sec
MaxRefused   == 6
LifeDeltas   == {(5 * Sec) \div 2, 5 * Sec}

LifeConnectMqtt == \E refused \in 0..MaxRefused : ConnectMqtt(refused)

LifeConnectRunloop == \E refused \in 0..MaxRefused : RunloopConnectMqtt(refused)

LifeFrame ==
    \E dt \in LifeDeltas, px \in PxValues, cy \in {None, 240} :
        /\ now + dt <= LifeDeadline
        /\ Frame(px, cy)
        /\ ProcessDepth(dt, px, cy)

LifeLoop ==
    \E lat \in MainLatency, px \in MqttPx :
        /\ now + interval + lat <= LifeDeadline
        /\ MainLoop(lat, px)

InitLife == InitCommon /\ Unconnected /\ (InitRunloop \/ InitMqtt)
NextLife ==
    LifeConnectMqtt \/ LifeConnectRunloop \/ LifeFrame \/ LifeLoop \/ Interrupt
SpecLife == InitLife /\ [][NextLife]_vars

-----------------------------------------------------------------------------
(* Properties of the motion state machine *)

\* the step is a call of process_depth that made an evaluation
EvalStep == script = "runloop" /\ step' = "process_depth" /\ ret' = "eval"
\* the step's evaluation and the last evaluation made: above the threshold
EvalStepAbove == avg_sum' > Threshold * avg_len'
LastEvalAbove == avg_sum > Threshold * avg_len
\* the state is the one an evaluation of process_depth left
AfterEval == script = "runloop" /\ step = "process_depth" /\ ret = "eval"

\* C1: an evaluation made while Idle moves the state to Active and publishes
\* exactly one "true" if and only if the average is strictly above the
\* threshold, then with last_motion = now and below_cnt = 0; at or below the
\* threshold it leaves the state Idle and publishes nothing.
C1_IdleEvaluation ==
    [][ (EvalStep /\ ~motion_state) =>
            IF EvalStepAbove
            THEN /\ motion_state'
                 /\ published' = <<"true">>
                 /\ last_motion' = now'
                 /\ below_cnt' = 0
            ELSE /\ ~motion_state'
                 /\ published' = <<>> ]_vars

\* the first evaluation a run can make found motion and published "true"
C1_Witness ==
    /\ AfterEval
    /\ now <= StartTime * Sec + 2 * CHECK_INTERVAL
    /\ LastEvalAbove
    /\ motion_state
    /\ published = <<"true">>
    /\ last_motion = now

\* C2: an evaluation made while Active with the average at or below the
\* threshold increments below_cnt, and moves the state to Idle, publishing
\* "false" exactly once, if and only if the counter has reached
\* MOTION_GRACE_EVALS or IDLE_TIMEOUT has passed since last_motion; otherwise
\* the state stays Active and nothing is published.  So once Active was
\* entered, 30 evaluations in a row at or below the threshold end in Idle with
\* exactly one "false" published.
C2_ActiveBelow ==
    /\ [][ (EvalStep /\ motion_state /\ ~EvalStepAbove) =>
              /\ below_cnt' = below_cnt + 1
              /\ IF below_cnt' >= 30 \/ now' - last_motion >= 240 * Sec
                 THEN ~motion_state' /\ published' = <<"false">>
                 ELSE motion_state' /\ published' = <<>> ]_vars
    /\ [](script = "runloop" /\ above_at # 0 /\ below_run >= 30
              => ~motion_state /\ false_run = 1)

\* the thirtieth evaluation in a row below the threshold ended the motion
C2_Witness ==
    /\ AfterEval
    /\ below_run = 30
    /\ below_cnt = 30
    /\ now - last_motion < 240 * Sec
    /\ ~motion_state
    /\ published = <<"false">>

\* C3: an evaluation made while Active with the average above the threshold
\* publishes "true" again, and sets the time of the last publish to now, if
\* and only if more than DEBOUNCE_SEC has passed since the previous "true";
\* so within 10 s of the change to Active at most one more "true" is
\* published, and an evaluation above the threshold at the 10 s mark finds
\* exactly one.
C3_Debounce ==
    /\ [][ (EvalStep /\ motion_state /\ EvalStepAbove) =>
              IF now' - pub_true_at > 5 * Sec
              THEN /\ published' = <<"true">>
                   /\ last_motion' = now'
                   /\ pub_true_at' = now'
              ELSE /\ published' = <<>>
                   /\ pub_true_at' = pub_true_at ]_vars
    /\ [](script = "runloop" /\ motion_state /\ act_at # 0
              => /\ true_run \in {1, 2}
                 /\ (AfterEval /\ LastEvalAbove /\ now = act_at + 10 * Sec
                        => true_run = 2))

\* ten seconds after the change to Active, an evaluation above the threshold
\* has published the one repeated "true"
C3_Witness ==
    /\ AfterEval
    /\ LastEvalAbove
    /\ motion_state
    /\ now = act_at + 10 * Sec
    /\ published = <<"true">>
    /\ true_run = 2

\* C4: every evaluation above the threshold made while Active sets last_motion
\* to the current time.
C4_LastMotionRefreshed ==
    [][ (EvalStep /\ motion_state /\ EvalStepAbove) => last_motion' = now' ]_vars

C6_IdleTimeoutCeiling ==
    (\/ AfterEval /\ ~LastEvalAbove
     \/ script = "mqtt" /\ step = "main" /\ ret = "still")
    /\ motion_state
        => now - above_at < 240 * Sec

\* C9: a call of process_depth made less than CHECK_INTERVAL after the
\* previous evaluation leaves motion_state, last_motion, below_cnt and
\* desired_led as they were and publishes nothing; these four change only in
\* a call that makes an evaluation, and an evaluation is made no sooner than
\* CHECK_INTERVAL after the one before it.
C9_EvaluationGate ==
    /\ [][ (script = "runloop" /\ step' = "process_depth"
                /\ now' - last_check < 5 * Sec)
              => /\ ret' = "early"
                 /\ UNCHANGED <<motion_state, last_motion, below_cnt, desired_led>>
                 /\ published' = <<>> ]_vars
    /\ [][ (script = "runloop"
                /\ <<motion_state, last_motion, below_cnt, desired_led>>'
                       # <<motion_state, last_motion, below_cnt, desired_led>>)
              => EvalStep ]_vars
    /\ [][ EvalStep => now' - last_check >= 5 * Sec ]_vars

\* a frame full of change arrived while Active, too soon to be evaluated
C9_Witness ==
    /\ script = "runloop"
    /\ step = "process_depth"
    /\ ret = "early"
    /\ motion_state
    /\ pixel_hist = <<2 * Threshold>>
    /\ published = <<>>

-----------------------------------------------------------------------------
(* Properties of the sliding window *)

\* the last n values of s
LastN(s, n) == SubSeq(s, Max(1, Len(s) - n + 1), Len(s))

\* C7: pixel_hist never holds more than 30 values, and holds the latest of
\* the change metrics observed since it was last cleared, in arrival order.
C7_WindowBounded ==
    script = "runloop" =>
        /\ Len(pixel_hist) <= 30
        /\ pixel_hist = IF ret = "eval" THEN <<>> ELSE LastN(observed, 30)

\* more than 30 metrics arrived since the last clear: the oldest are gone
C7_Witness ==
    /\ script = "runloop"
    /\ Len(observed) > 32
    /\ Len(pixel_hist) = 30
    /\ pixel_hist[1] = observed[Len(observed) - 29]
    /\ pixel_hist[1] # pixel_hist[30]

\* C8: an evaluation averages what the window gathered since the evaluation
\* before it and clears the window, so the window is empty after every
\* evaluation and no metric counts in two of them.
C8_SelfContainedEvaluation ==
    AfterEval =>
        /\ pixel_hist = <<>>
        /\ avg_sum = Sum(LastN(observed, 30))
        /\ avg_len = Len(LastN(observed, 30))

\* a second evaluation, over a full window
C8_Witness ==
    /\ AfterEval
    /\ now > StartTime * Sec + 2 * CHECK_INTERVAL
    /\ avg_len = 30
    /\ Len(observed) > 30
    /\ pixel_hist = <<>>

-----------------------------------------------------------------------------
(* Properties of the actuator *)

\* C10: every angle given to freenect.set_tilt_degs lies in [-30, 30]:
\* current_tilt as body_callback sends it after any number of jogs, and the
\* poke and the target of track_from_frame for every centroid row.
C10_AnglesInRange ==
    \A i \in DOMAIN tilt_cmds : tilt_cmds[i] >= -30 /\ tilt_cmds[i] <= 30

\* body_callback sent the lower limit after more jogs down than it takes to
\* reach it
C10_Witness ==
    /\ script = "runloop"
    /\ step = "body_callback"
    /\ tilt_cmds = <<-30>>
    /\ act_at # 0
    /\ now - act_at >= 4 * (Sec \div 2)

\* C11: any two calls of freenect.set_tilt_degs made by body_callback are at
\* least 1 s apart in time, and any two made by track_from_frame at least
\* 2 s, however depth frames and body callbacks interleave.
C11_CooldownBetweenCommands ==
    [][ LET gap == IF script = "track" THEN 2 * Sec ELSE 1 * Sec
        IN  \A i \in DOMAIN tilt_at' :
                IF i = 1
                THEN cmd_at # 0 => tilt_at'[1] - cmd_at >= gap
                ELSE tilt_at'[i] - tilt_at'[i - 1] >= gap ]_vars

\* the same of body_callback alone
BodyCommandsApart ==
    [][ (script = "runloop" /\ tilt_at' # <<>> /\ cmd_at # 0)
            => /\ Len(tilt_at') = 1
               /\ tilt_at'[1] - cmd_at >= 1 * Sec ]_vars

\* C12: a call of process_depth with a change mask changes current_tilt only
\* when the state is Active, the centroid is defined, the change metric of
\* the frame exceeds the threshold and the centroid row is in the top 30% or
\* the bottom 30% of the 480 rows; then by one step of 5 degrees up or down,
\* saturating at +30 and -30.  In every other case, and in body_callback,
\* current_tilt stays as it was.
C12_IncrementalJog ==
    /\ [][ (script = "runloop" /\ step' = "process_depth") =>
              LET jogs == /\ prev
                          /\ motion_state
                          /\ frame_cy' # None
                          /\ frame_px' > Threshold
                  up   == jogs /\ 10 * frame_cy' < 3 * 480
                  down == jogs /\ 10 * frame_cy' > 7 * 480
              IN  current_tilt' =
                      IF up THEN Min(current_tilt + 5, 30)
                      ELSE IF down THEN Max(current_tilt - 5, -30)
                      ELSE current_tilt ]_vars
    /\ [][ (script = "runloop" /\ current_tilt' # current_tilt)
              => step' = "process_depth" ]_vars

\* jogs up from the start angle to the upper limit, the last in the top zone's
\* last row
C12_Witness ==
    /\ script = "runloop"
    /\ step = "process_depth"
    /\ motion_state
    /\ frame_px > Threshold
    /\ frame_cy = 143
    /\ current_tilt = 30

\* C13: a frame whose change mask has no mass (no centroid) updates no
\* target, sends no command to the actuator and leaves the cooldown
\* timestamp alone: track_from_frame leaves target_tilt, last_tilt and
\* last_tilt_time as they were, process_depth current_tilt and
\* last_tilt_time.
C13_DegenerateGeometry ==
    /\ [][ (script = "track" /\ step' = "track_from_frame" /\ frame_cy' = None)
              => /\ tilt_cmds' = <<>>
                 /\ UNCHANGED <<target_tilt, last_tilt, last_tilt_time>> ]_vars
    /\ [][ (script = "runloop" /\ step' = "process_depth" /\ frame_cy' = None)
              => /\ tilt_cmds' = <<>>
                 /\ UNCHANGED <<current_tilt, last_tilt_time>> ]_vars

\* a frame without mass came after a move, once the cooldown had passed
C13_Witness ==
    /\ script = "track"
    /\ motor_dev
    /\ ret = "nocentroid"
    /\ frame_cy = None
    /\ target_tilt # None
    /\ now - last_tilt_time > TRACK_TILT_COOLDOWN
    /\ tilt_cmds = <<>>

-----------------------------------------------------------------------------
(* Properties of the indicator *)

\* C14: body_callback calls freenect.set_led when the desired value differs
\* from the last applied one and only then, never when they are equal; after
\* the call last_led equals desired_led; at most one call is made per change
\* of the desired value; and none of it depends on the cooldown of the tilt.
C14_LedOnChange ==
    /\ [][ (script = "runloop" /\ step' = "body_callback") =>
              IF desired_led # last_led
              THEN led_cmds' = <<desired_led>> /\ last_led' = desired_led
              ELSE led_cmds' = <<>> /\ last_led' = last_led ]_vars
    /\ [][ (script = "runloop" /\ step' # "body_callback")
              => led_cmds' = <<>> /\ last_led' = last_led ]_vars
    /\ [](script = "runloop" => led_run <= 1)

\* the alert value was applied by a call that found the cooldown of the tilt
\* not yet over
C14_Witness ==
    /\ script = "runloop"
    /\ step = "body_callback"
    /\ led_cmds = <<LED_RED>>
    /\ last_led = LED_RED
    /\ tilt_cmds = <<>>
    /\ now - last_tilt_time < TILT_COOLDOWN
    /\ led_run = 1

\* C15: in the runloop variant desired_led is LED_RED exactly when
\* motion_state is Active and LED_GREEN exactly when it is Idle, in every
\* reachable state.
C15_DesiredLedFollowsState ==
    script = "runloop" =>
        /\ desired_led \in {LED_GREEN, LED_RED}
        /\ (desired_led = LED_RED) <=> motion_state
        /\ (desired_led = LED_GREEN) <=> ~motion_state

\* back in Idle after a motion, the desired value is the quiescent one again
C15_Witness ==
    /\ AfterEval
    /\ above_at # 0
    /\ ~motion_state
    /\ published = <<"false">>
    /\ desired_led = LED_GREEN

-----------------------------------------------------------------------------
(* Properties of the published stream *)

\* C20: in the runloop variant, once something was published, the latest
\* payload is "true" exactly when motion_state is Active; the first payload
\* is "true", and a "false" always follows a "true", never another "false".
C20_StreamAgreesWithState ==
    /\ [](script = "runloop" /\ last_pub # "none"
              => ((last_pub = "true") <=> motion_state))
    /\ [][ (script = "runloop" /\ published' # <<>>) =>
              /\ Len(published') = 1
              /\ last_pub = "none" => published' = <<"true">>
              /\ published' = <<"false">> => last_pub = "true" ]_vars

\* Idle again, an evaluation published nothing: the latest payload is the
\* "false" that ended the motion
C20_Witness ==
    /\ AfterEval
    /\ ~LastEvalAbove
    /\ ~motion_state
    /\ published = <<>>
    /\ last_pub = "false"

\* C17: the second "false" of a change from Active to Idle does not block the
\* loop of main: the iteration that publishes the first "false" does not
\* publish the second one as well, so that a frame is taken and evaluated
\* between the two.
C17_SecondFalseNonBlocking ==
    [][ (script = "mqtt" /\ step' = "main") => Len(published') <= 1 ]_vars

-----------------------------------------------------------------------------
(* Properties of the process *)

\* C16: a KeyboardInterrupt in any state of the control loop makes the
\* program publish the current motion state a last time, and exit with
\* code 0.
C16_FinalPublishOnInterrupt ==
    [][ step' = "interrupt" =>
            /\ published' = <<IF motion_state THEN "true" ELSE "false">>
            /\ exit_code' = 0 ]_vars

\* what C18 says of one call of connect_mqtt
ConnectContract ==
    /\ retry' >= 1
    /\ retry' <= 5
    /\ now' - now = 5 * Sec * (IF client' THEN retry' - 1 ELSE retry')
    /\ IF client' THEN exit_code' = None ELSE retry' = 5 /\ exit_code' = 1
    /\ published' = <<>>

\* C18: connect_mqtt makes at most 5 attempts to connect, waits 5 s after
\* each one that fails, returns on the first that succeeds, and after 5
\* failures ends the process with exit code 1; without a connection the
\* control loop is never entered and nothing is published.
C18_ConnectRetries ==
    /\ [][ step' = "connect_mqtt" => ConnectContract ]_vars
    /\ [](~client => last_pub = "none" /\ step \in {"init", "connect_mqtt"})

\* the same of connect_mqtt of kinect_motion_mqtt.py alone
MqttConnectRetries ==
    /\ [][ (script = "mqtt" /\ step' = "connect_mqtt") => ConnectContract ]_vars
    /\ [](~client => last_pub = "none" /\ step \in {"init", "connect_mqtt"})

-----------------------------------------------------------------------------
(* Properties of the direct-set helper *)

\* C19: the target of track_from_frame is the linear map of the centroid row
\* y from [0, 480] onto [30, -30], cut to an integer towards 0 and clamped to
\* [-30, 30]: 30 for row 0, -30 for row 480, 0 for row 240, and never larger
\* for a row further down.
C19_DirectSetMapping ==
    /\ [](script = "track" /\ ret \in {"moved", "cooldown"} =>
              LET y    == frame_cy
                  lin8 == 240 - y
                  t    == target_tilt
              IN  /\ t >= -30 /\ t <= 30
                  /\ y = 0 => t = 30
                  /\ y = 480 => t = -30
                  /\ y = 240 => t = 0
                  /\ y > 480 => t = -30
                  /\ (y >= 0 /\ y <= 480) =>
                        IF lin8 >= 0
                        THEN 8 * t <= lin8 /\ lin8 < 8 * t + 8
                        ELSE 8 * t >= lin8 /\ lin8 > 8 * t - 8)
    /\ [][ (/\ script = "track"
            /\ ret \in {"moved", "cooldown"}
            /\ ret' \in {"moved", "cooldown"}
            /\ frame_cy' >= frame_cy) => target_tilt' <= target_tilt ]_vars

\* the row just below the middle still gives 0, sent after the poke to 1
C19_Witness ==
    /\ script = "track"
    /\ ret = "moved"
    /\ frame_cy = 241
    /\ target_tilt = 0
    /\ tilt_cmds = <<1, 0>>

=============================================================================
